---- MODULE Spec2Model ----
(***************************************************************************)
(* Geomonitor map front-end: the event classifier (topic -> color,         *)
(* importance -> minimum zoom) and the marker visibility controller        *)
(* (snapshot handler, zoomend handler, feed error handler, theme change)   *)
(* of src/app.js and of the earlier variants kept in src/unnamed.          *)
(***************************************************************************)
EXTENDS Integers, Sequences, FiniteSets, TLC

\* ---------------------------------------------------------------------
\* Bounds of the model
\* ---------------------------------------------------------------------
\* number of distinct event ids a snapshot can carry
NumIds == 2
\* saturation point of the count of map.on("zoomend", ...) registrations
MaxRegs == 2
\* longest importance string fed to parseInt
MaxImpLen == 2
\* most event markers the map holds as layers at once (part_001 never
\* detaches one, so its handler stops being driven at this point)
MaxLayers == 4
\* number of fetchHurricanes invocations (the one at start-up, then the timer's)
MaxInvocations == 2
\* number of getColoredSvgDataUrl calls made by a caller of its own
MaxCalls == 3

\* ---------------------------------------------------------------------
\* JavaScript values: undefined, null, numbers (integers) and strings
\* (sequences of one-character strings)
\* ---------------------------------------------------------------------
Undef == [t |-> "undefined", n |-> 0, s |-> <<>>]
Null == [t |-> "null", n |-> 0, s |-> <<>>]
Num(i) == [t |-> "number", n |-> i, s |-> <<>>]
Str(q) == [t |-> "string", n |-> 0, s |-> q]

\* result of parseInt: NaN or an integer
NaN == [nan |-> TRUE, v |-> 0]
IntV(i) == [nan |-> FALSE, v |-> i]

\* JavaScript truthiness of a value (used by !e.lat, topic || "", ...)
Truthy(x) ==
  CASE x.t = "undefined" -> FALSE
    [] x.t = "null" -> FALSE
    [] x.t = "number" -> x.n # 0
    [] x.t = "string" -> x.s # <<>>
    [] OTHER -> TRUE

DecDigits == <<"0", "1", "2", "3", "4", "5", "6", "7", "8", "9">>
HexDigits == DecDigits \o <<"a", "b", "c", "d", "e", "f">>

\* value of character c as a digit of the given digit sequence, or -1
DigitVal(c, digits) ==
  IF \E i \in 1..Len(digits) : digits[i] = c
    THEN (CHOOSE i \in 1..Len(digits) : digits[i] = c) - 1
    ELSE -1

\* String(n) for an integer n
RECURSIVE NatToString(_)
NatToString(n) ==
  IF n < 10 THEN <<DecDigits[n + 1]>>
  ELSE NatToString(n \div 10) \o <<DecDigits[(n % 10) + 1]>>

ToStringJS(x) ==
  CASE x.t = "undefined" -> <<"u", "n", "d", "e", "f", "i", "n", "e", "d">>
    [] x.t = "null" -> <<"n", "u", "l", "l">>
    [] x.t = "number" ->
         IF x.n < 0 THEN <<"-">> \o NatToString(0 - x.n) ELSE NatToString(x.n)
    [] OTHER -> x.s

\* longest prefix of s made of digits of the radix, folded to its value;
\* acc = [seen |-> some digit consumed, v |-> value so far]
RECURSIVE ParseDigits(_, _, _)
ParseDigits(s, digits, acc) ==
  IF s = <<>> \/ DigitVal(Head(s), digits) < 0 THEN acc
  ELSE ParseDigits(Tail(s), digits,
         [seen |-> TRUE, v |-> acc.v * Len(digits) + DigitVal(Head(s), digits)])

RECURSIVE StripLeadingWS(_)
StripLeadingWS(s) ==
  IF s # <<>> /\ Head(s) = " " THEN StripLeadingWS(Tail(s)) ELSE s

\* parseInt(x) with no radix argument
parseInt(x) ==
  LET s0 == StripLeadingWS(ToStringJS(x))
      neg == s0 # <<>> /\ Head(s0) = "-"
      s1 == IF s0 # <<>> /\ Head(s0) \in {"-", "+"} THEN Tail(s0) ELSE s0
      hex == Len(s1) >= 2 /\ s1[1] = "0" /\ s1[2] \in {"x", "X"}
      r == IF hex THEN ParseDigits(Tail(Tail(s1)), HexDigits, [seen |-> FALSE, v |-> 0])
           ELSE ParseDigits(s1, DecDigits, [seen |-> FALSE, v |-> 0])
  IN IF ~r.seen THEN NaN
     ELSE IntV(IF neg THEN 0 - r.v ELSE r.v)

\* ---------------------------------------------------------------------
\* Event classifier
\* ---------------------------------------------------------------------
UpperCase == <<"A", "B", "C", "D", "E", "F", "G", "H", "I", "J", "K", "L", "M",
               "N", "O", "P", "Q", "R", "S", "T", "U", "V", "W", "X", "Y", "Z">>
LowerCase == <<"a", "b", "c", "d", "e", "f", "g", "h", "i", "j", "k", "l", "m",
               "n", "o", "p", "q", "r", "s", "t", "u", "v", "w", "x", "y", "z">>

\* String.prototype.toLowerCase
toLowerCase(s) ==
  [i \in 1..Len(s) |->
     IF \E j \in 1..26 : UpperCase[j] = s[i]
       THEN LowerCase[CHOOSE j \in 1..26 : UpperCase[j] = s[i]]
       ELSE s[i]]

\* variant that compares the topic as written, without toLowerCase()
NormTopic_caseSensitive(topic) == IF Truthy(topic) THEN ToStringJS(topic) ELSE <<>>

\* (topic || "").toLowerCase()
NormTopic(topic) == IF Truthy(topic) THEN toLowerCase(ToStringJS(topic)) ELSE <<>>

geopolitics == <<"g", "e", "o", "p", "o", "l", "i", "t", "i", "c", "s">>
conflict == <<"c", "o", "n", "f", "l", "i", "c", "t">>
diplomacy == <<"d", "i", "p", "l", "o", "m", "a", "c", "y">>
security == <<"s", "e", "c", "u", "r", "i", "t", "y">>
economy == <<"e", "c", "o", "n", "o", "m", "y">>
finance == <<"f", "i", "n", "a", "n", "c", "e">>
technology == <<"t", "e", "c", "h", "n", "o", "l", "o", "g", "y">>
cyber == <<"c", "y", "b", "e", "r">>
science == <<"s", "c", "i", "e", "n", "c", "e">>
environment == <<"e", "n", "v", "i", "r", "o", "n", "m", "e", "n", "t">>
disaster == <<"d", "i", "s", "a", "s", "t", "e", "r">>
energy == <<"e", "n", "e", "r", "g", "y">>
tech == <<"t", "e", "c", "h">>
other == <<"o", "t", "h", "e", "r">>

\* variant whose neutral color ignores the theme (as in part_000)
getTopicColor_fixedNeutral(topic, theme) ==
  LET t == NormTopic(topic)
  IN CASE t \in {geopolitics, conflict, diplomacy, security} -> "#ef4444"
       [] t \in {economy, finance} -> "#22c55e"
       [] t \in {technology, cyber, science} -> "#0ea5e9"
       [] t \in {environment, disaster, energy} -> "#fb923c"
       [] OTHER -> "#ffffff"

\* src/app.js getTopicColor, reading the global currentTheme
getTopicColor(topic, theme) ==
  LET t == NormTopic(topic)
      isLight == theme = "light" \/ theme = "satellite"
      defaultDot == IF isLight THEN "#000000" ELSE "#ffffff"
  IN CASE t \in {geopolitics, conflict, diplomacy, security} -> "#ef4444"
       [] t \in {economy, finance} -> "#22c55e"
       [] t \in {technology, cyber, science} -> "#0ea5e9"
       [] t \in {environment, disaster, energy} -> "#fb923c"
       [] OTHER -> defaultDot

\* part_000 (and part_002) getTopicColor
getTopicColor_p000(topic) ==
  LET t == NormTopic(topic)
  IN CASE t \in {geopolitics, conflict, diplomacy, security} -> "red"
       [] t \in {economy, finance} -> "limegreen"
       [] t \in {technology, cyber, science} -> "deepskyblue"
       [] t \in {environment, disaster, energy} -> "orange"
       [] OTHER -> "white"

\* part_003 getTopicColor
getTopicColor_p003(topic) ==
  LET t == NormTopic(topic)
  IN CASE t \in {geopolitics, conflict} -> "red"
       [] t = finance -> "limegreen"
       [] t \in {tech, science} -> "deepskyblue"
       [] t = disaster -> "orange"
       [] OTHER -> "white"

\* variant of the switch that interpolates between the levels
ZoomSwitch_linear(imp) ==
  IF imp.nan \/ imp.v \notin 1..5 THEN 9 ELSE 2 * (5 - imp.v)

\* the switch of getMinZoomForImportance over an already coerced number
ZoomSwitch(imp) ==
  CASE ~imp.nan /\ imp.v = 5 -> 0
    [] ~imp.nan /\ imp.v = 4 -> 3
    [] ~imp.nan /\ imp.v = 3 -> 5
    [] ~imp.nan /\ imp.v = 2 -> 7
    [] OTHER -> 9

\* parseInt(importance) || 3
ImpOrThree(importance) ==
  LET p == parseInt(importance)
  IN IF p.nan \/ p.v = 0 THEN IntV(3) ELSE p

\* src/app.js getMinZoomForImportance
getMinZoomForImportance(importance) == ZoomSwitch(ImpOrThree(importance))

\* part_000 getMinZoomForImportance (case 1 shares the default branch)
getMinZoomForImportance_p000(importance) == ZoomSwitch(ImpOrThree(importance))

\* part_002 getMinZoomForImportance: switch (parseInt(importance)), no "|| 3"
getMinZoomForImportance_p002(importance) == ZoomSwitch(parseInt(importance))

\* part_003 getMinZoomForImportance: switch (parseInt(importance)), no "|| 3"
getMinZoomForImportance_p003(importance) == ZoomSwitch(parseInt(importance))

\* part_001 (first variant) getTopicColor
getTopicColor_p001(t) ==
  LET c == NormTopic(t)
  IN CASE c = geopolitics -> "red"
       [] c = finance -> "green"
       [] c = tech -> "deepskyblue"
       [] c = disaster -> "orange"
       [] c = science -> "violet"
       [] OTHER -> "white"

RECURSIVE StripTrailingWS(_)
StripTrailingWS(s) ==
  IF s # <<>> /\ s[Len(s)] = " " THEN StripTrailingWS(SubSeq(s, 1, Len(s) - 1)) ELSE s

AllDigits(s, digits) == \A i \in 1..Len(s) : DigitVal(s[i], digits) >= 0

\* ToNumber, the coercion the relational operators apply to an operand:
\* NaN or the number, of which the model keeps the integer part (the
\* only use is the comparison with 5).  A string is a numeric literal in
\* full or it is NaN; exponents and "Infinity" need letters that the
\* importance strings never hold.
ToNumber(x) ==
  CASE x.t = "undefined" -> NaN
    [] x.t = "null" -> IntV(0)
    [] x.t = "number" -> IntV(x.n)
    [] OTHER ->
         LET s0 == StripTrailingWS(StripLeadingWS(x.s))
             neg == s0 # <<>> /\ Head(s0) = "-"
             s1 == IF s0 # <<>> /\ Head(s0) \in {"-", "+"} THEN Tail(s0) ELSE s0
             hex == Len(s0) >= 2 /\ s0[1] = "0" /\ s0[2] \in {"x", "X"}
             dots == { i \in 1..Len(s1) : s1[i] = "." }
             d == IF dots = {} THEN Len(s1) + 1 ELSE CHOOSE i \in dots : \A j \in dots : i <= j
             ip == SubSeq(s1, 1, d - 1)
             fp == SubSeq(s1, d + 1, Len(s1))
             v == ParseDigits(ip, DecDigits, [seen |-> FALSE, v |-> 0]).v
         IN IF s0 = <<>> THEN IntV(0)
            ELSE IF hex
              THEN IF Len(s0) >= 3 /\ AllDigits(SubSeq(s0, 3, Len(s0)), HexDigits)
                     THEN IntV(ParseDigits(SubSeq(s0, 3, Len(s0)), HexDigits,
                                           [seen |-> FALSE, v |-> 0]).v)
                     ELSE NaN
            ELSE IF AllDigits(ip, DecDigits) /\ AllDigits(fp, DecDigits)
                    /\ Len(ip) + Len(fp) >= 1
              THEN IntV(IF neg THEN 0 - v ELSE v)
              ELSE NaN

\* part_001 (first variant) getMinZoom:
\* i >= 5 ? 0 : i === 4 ? 3 : i === 3 ? 5 : i === 2 ? 7 : 9
getMinZoom(i) ==
  LET n == ToNumber(i)
  IN IF ~n.nan /\ n.v >= 5 THEN 0
     ELSE IF i = Num(4) THEN 3
     ELSE IF i = Num(3) THEN 5
     ELSE IF i = Num(2) THEN 7
     ELSE 9

\* ---------------------------------------------------------------------
\* State
\* ---------------------------------------------------------------------
VARIABLES
  variant,        \* which script of the family runs: "app", "p000" .. "p003"
  activeMarkers,  \* event id -> [marker |-> [id, color, topic], minZoom]; an
                  \* app.js marker also remembers its record's topic
  attached,       \* ids of the event markers the map currently has as layers
  zoom,           \* map.getZoom()
  currentTheme,   \* src/app.js currentTheme
  tileLayer,      \* theme whose tile layer is on the map ("none" if none)
  maptilerKey,    \* src/app.js MAPTILER_KEY_VALUE
  zoomendRegs,    \* number of map.on("zoomend", updateMarkerVisibility) calls
  status,         \* last text given to logStatus
  last,           \* the handler that ran last, its input and what it did
  fnIn,           \* classifier specification: the input under test
  fnOut,          \* classifier specification: the results for fnIn
  hurricaneMarkers,   \* part_003 hurricaneMarkers: storm id -> marker handle
  hurricaneLayer,     \* the hurricane markers on the map (part_003) or in
                      \* the layer group hurricaneLayer (part_002)
  hurricanesVisible,  \* part_003 hurricanesVisible
  tasks,              \* part_002: the invocations of fetchHurricanes
  svgDataUrlCache,    \* part_002 svgDataUrlCache: key -> data URL or null
  iconCalls,          \* part_002: getColoredSvgDataUrl calls of other callers
  iconFetches         \* part_002: number of fetch(ICON_PATH) issued so far

\* the state of the hurricane overlays
hvars == <<hurricaneMarkers, hurricaneLayer, hurricanesVisible, tasks,
           svgDataUrlCache, iconCalls, iconFetches>>

vars == <<variant, activeMarkers, attached, zoom, currentTheme, tileLayer,
          maptilerKey, zoomendRegs, status, last, fnIn, fnOut, hvars>>

Ids == 1..NumIds

\* zoom levels the map is driven through: the initial level 2, which is
\* below the minZoom 7 of importance 2, and level 7 itself
Zooms == {2, 7}

\* L.map(...).setView([20, 0], 2)
InitialZoom == 2

\* ---------------------------------------------------------------------
\* Snapshots of the data feed
\* ---------------------------------------------------------------------
Rec(lat, lon, topic, importance) ==
  [t |-> "object", lat |-> lat, lon |-> lon, topic |-> topic, importance |-> importance]
NullEntry == [t |-> "null", lat |-> Undef, lon |-> Undef, topic |-> Undef, importance |-> Undef]
PrimEntry == [t |-> "number", lat |-> Undef, lon |-> Undef, topic |-> Undef, importance |-> Undef]

\* the entries a snapshot can hold for an id: null, two complete records,
\* a record without lon and, for src/app.js, a record with lat 0, for
\* part_000 / part_003 a primitive in place of a record
EntryChoices(v) ==
  { NullEntry,
    Rec(Num(40), Num(-74), Str(<<"F", "i", "n", "a", "n", "c", "e">>), Num(5)),
    Rec(Num(51), Num(-1), Undef, Str(<<"2">>)),
    Rec(Num(3), Undef, Str(disaster), Num(4)) } \cup
  (IF v = "app" THEN {Rec(Num(0), Num(3), Str(finance), Num(5))} ELSE {PrimEntry})

\* the records of the feed that drives src/app.js, part_001 and part_002
\* side by side: two complete ones, one with lat 0 and one with lon 0
VariantEntries ==
  { Rec(Num(40), Num(-74), Str(<<"F", "i", "n", "a", "n", "c", "e">>), Num(5)),
    Rec(Num(51), Num(-1), Undef, Str(<<"2">>)),
    Rec(Num(0), Num(3), Str(finance), Num(5)),
    Rec(Num(3), Num(0), Str(disaster), Num(4)) }

NullSnap == [t |-> "null", m |-> <<>>]
PrimSnap == [t |-> "number", m |-> <<>>]

\* snapshot.val(): null when there are no events, otherwise a non-empty
\* mapping id -> entry (or a truthy primitive stored at /events)
Snapshots(v) ==
  {NullSnap, PrimSnap} \cup
  { [t |-> "object", m |-> f] :
      f \in UNION { [D -> EntryChoices(v)] : D \in (SUBSET Ids) \ {{}} } }
SnapshotsApp == Snapshots("app")
SnapshotsP == Snapshots("p000")
SnapshotsV ==
  {NullSnap} \cup
  { [t |-> "object", m |-> f] :
      f \in UNION { [D -> VariantEntries] : D \in (SUBSET Ids) \ {{}} } }

\* !events
SnapFalsy(events) == events.t = "null"

\* e.lat, e.lon, ... on an entry that is not null (a primitive has no fields)
Field(e, name) ==
  IF e.t # "object" THEN Undef
  ELSE CASE name = "lat" -> e.lat
         [] name = "lon" -> e.lon
         [] name = "topic" -> e.topic
         [] OTHER -> e.importance

\* the ids in ascending order, the order in which Object.entries and
\* Object.values enumerate integer-like keys
IdSeq == [i \in 1..NumIds |-> i]

\* Object.entries(events) / Object.values(activeMarkers): keys in order
KeysOf(f) == SelectSeq(IdSeq, LAMBDA k : k \in DOMAIN f)

\* Object.entries(events): a primitive number has no own entries
EntriesOf(events) == IF events.t = "object" THEN KeysOf(events.m) ELSE <<>>

\* ---------------------------------------------------------------------
\* Map surface (Leaflet): layers are identified by their handle id
\* ---------------------------------------------------------------------
MarkerIds(am) == { am[k].marker.id : k \in DOMAIN am }

\* L.circleMarker(...) returns a new object: a handle no live reference holds
FreshId(am, att) ==
  LET used == MarkerIds(am) \cup att
  IN CHOOSE i \in 1..(Cardinality(used) + 1) :
       i \notin used /\ \A j \in 1..(i - 1) : j \in used

NoMarkers == [k \in {} |-> 0]

\* ---------------------------------------------------------------------
\* Visibility: updateMarkerVisibility (identical in app.js, part_000, part_003)
\* ---------------------------------------------------------------------
\* One pass of the forEach over Object.values(activeMarkers).  calls is the
\* sequence of addLayer / removeLayer calls made on the map.
RECURSIVE VisibilityLoop(_, _, _, _, _)
VisibilityLoop(keys, am, att, z, calls) ==
  IF keys = <<>> THEN [am |-> am, att |-> att, calls |-> calls]
  ELSE LET e == am[Head(keys)]
           id == e.marker.id
       IN IF z >= e.minZoom
            THEN IF id \notin att
                   THEN VisibilityLoop(Tail(keys), am, att \cup {id}, z,
                                       Append(calls, <<"addLayer", id>>))
                   ELSE VisibilityLoop(Tail(keys), am, att, z, calls)
            ELSE IF id \in att
                   THEN VisibilityLoop(Tail(keys), am, att \ {id}, z,
                                       Append(calls, <<"removeLayer", id>>))
                   ELSE VisibilityLoop(Tail(keys), am, att, z, calls)

\* variant of updateMarkerVisibility that never detaches a marker
updateMarkerVisibility_addOnly(am, att, z) ==
  [am |-> am,
   att |-> att \cup { am[k].marker.id : k \in { j \in DOMAIN am : z >= am[j].minZoom } },
   calls |-> <<>>]

\* variant of updateMarkerVisibility without the hasLayer tests
updateMarkerVisibility_noHasLayer(am, att, z) ==
  [am |-> am,
   att |-> (att \ MarkerIds(am)) \cup
           { am[k].marker.id : k \in { j \in DOMAIN am : z >= am[j].minZoom } },
   calls |-> [i \in 1..Len(KeysOf(am)) |->
               <<IF z >= am[KeysOf(am)[i]].minZoom THEN "addLayer" ELSE "removeLayer",
                 am[KeysOf(am)[i]].marker.id>>]]

\* variant of updateMarkerVisibility that forgets the entries it hides
updateMarkerVisibility_dropHidden(am, att, z) ==
  [am |-> [k \in { j \in DOMAIN am : z >= am[j].minZoom } |-> am[k]],
   att |-> (att \ MarkerIds(am)) \cup
           { am[k].marker.id : k \in { j \in DOMAIN am : z >= am[j].minZoom } },
   calls |-> <<>>]

updateMarkerVisibility(am, att, z) == VisibilityLoop(KeysOf(am), am, att, z, <<>>)

\* the handler run n times in a row (once per registered listener);
\* acc = [am, att, runs] where runs collects the calls of each run
RECURSIVE RunListeners(_, _, _)
RunListeners(n, z, acc) ==
  IF n = 0 THEN acc
  ELSE LET r == updateMarkerVisibility(acc.am, acc.att, z)
       IN RunListeners(n - 1, z,
            [am |-> r.am, att |-> r.att, runs |-> Append(acc.runs, r.calls)])

\* ---------------------------------------------------------------------
\* Snapshot handling, src/app.js
\* ---------------------------------------------------------------------
\* variant of removePrevious that keeps the stored entries
removePrevious_keepEntries(am, att) == [am |-> am, att |-> att \ MarkerIds(am)]

\* variant of removePrevious that leaves the old markers on the map
removePrevious_noDetach(am, att) == [am |-> NoMarkers, att |-> att]

\* "Remove previous markers": detach each stored marker, forget the entries
removePrevious(am, att) == [am |-> NoMarkers, att |-> att \ MarkerIds(am)]

\* variant of the guard that tests for absent coordinates, not falsy ones
SkipEntry_absentOnly(e) ==
  \/ e.t = "null"
  \/ Field(e, "lat").t \in {"undefined", "null"}
  \/ Field(e, "lon").t \in {"undefined", "null"}

\* variant of the guard that tests lat only
SkipEntry_latOnly(e) ==
  \/ e.t = "null"
  \/ ~Truthy(Field(e, "lat"))

\* if (!e || !e.lat || !e.lon) return;
SkipEntry(e) ==
  \/ e.t = "null"
  \/ ~Truthy(Field(e, "lat"))
  \/ ~Truthy(Field(e, "lon"))

\* marker.options._topic = e.topic || "other"
TopicOption(e) == IF Truthy(Field(e, "topic")) THEN Field(e, "topic") ELSE Str(other)

\* the data-theme attribute of the page body at load time
InitialThemes == { "dark", "satellite" }

\* the theme names changeTheme is called with
ThemeInputs == { "dark", "light", "solarized", "satellite", "retro" }

\* getTopicColor(e.topic) and getMinZoomForImportance(e.importance),
\* tabulated once over the topics, themes and importances that occur
FeedEntries == EntryChoices("app") \cup EntryChoices("p000") \cup VariantEntries
FeedTopics == { Field(e, "topic") : e \in FeedEntries } \cup {Str(other)}
FeedImportances == { Field(e, "importance") : e \in FeedEntries }
ColorOf ==
  [t \in FeedTopics, th \in ThemeInputs \cup InitialThemes |-> getTopicColor(t, th)]
ZoomOf == [i \in FeedImportances |-> getMinZoomForImportance(i)]
ColorOf_p000 == [t \in FeedTopics |-> getTopicColor_p000(t)]
ColorOf_p003 == [t \in FeedTopics |-> getTopicColor_p003(t)]
ZoomOf_p000 == [i \in FeedImportances |-> getMinZoomForImportance_p000(i)]
ZoomOf_p003 == [i \in FeedImportances |-> getMinZoomForImportance_p003(i)]
ZoomOf_p002 == [i \in FeedImportances |-> getMinZoomForImportance_p002(i)]
ColorOf_p001 == [t \in FeedTopics |-> getTopicColor_p001(t)]
ZoomOf_p001 == [i \in FeedImportances |-> getMinZoom(i)]

\* body of Object.entries(events).forEach in renderMarkers
RECURSIVE RenderLoop(_, _, _, _, _)
RenderLoop(keys, events, theme, am, att) ==
  IF keys = <<>> THEN [am |-> am, att |-> att, thrown |-> FALSE]
  ELSE LET key == Head(keys)
           e == events.m[key]
       IN IF SkipEntry(e) THEN RenderLoop(Tail(keys), events, theme, am, att)
          ELSE LET color == ColorOf[Field(e, "topic"), theme]
                   minZoom == ZoomOf[Field(e, "importance")]
                   id == FreshId(am, att)
                   entry == [marker |-> [id |-> id, color |-> color, topic |-> TopicOption(e),
                                         recordTopic |-> Field(e, "topic")],
                             minZoom |-> minZoom]
               IN RenderLoop(Tail(keys), events, theme,
                             (key :> entry) @@ am, att \cup {id})

\* renderMarkers(events): result [am, att, thrown, calls, registered]
renderMarkers(events, theme, am, att, z) ==
  LET c == removePrevious(am, att)
      r == RenderLoop(EntriesOf(events), events, theme, c.am, c.att)
      v == updateMarkerVisibility(r.am, r.att, z)
  IN [am |-> v.am, att |-> v.att, thrown |-> FALSE, calls |-> v.calls,
      registered |-> TRUE]

\* the "value" callback of setupRealtimeListener
onValue(events, theme, am, att, z) ==
  IF SnapFalsy(events)
    THEN [am |-> am, att |-> att, thrown |-> FALSE, calls |-> <<>>,
          registered |-> FALSE]
    ELSE renderMarkers(events, theme, am, att, z)

\* variant of the error callback that drops the markers
onFeedError_clear(am, att) ==
  [am |-> NoMarkers, att |-> att \ MarkerIds(am), thrown |-> FALSE,
   status |-> "firebase error"]

\* the error callback of setupRealtimeListener: verboseError + logStatus
onFeedError(am, att) ==
  [am |-> am, att |-> att, thrown |-> FALSE, status |-> "firebase error"]

\* ---------------------------------------------------------------------
\* Snapshot handling, part_000, part_002 and part_003
\* ---------------------------------------------------------------------
\* clearMarkers: map.removeLayer(marker) for every entry, then reset
clearMarkers(am, att) == [am |-> NoMarkers, att |-> att \ MarkerIds(am)]

\* body of Object.entries(events).forEach; event.lat on a null entry
\* is a TypeError that ends the forEach and the handler
RECURSIVE EntriesLoop(_, _, _, _, _)
EntriesLoop(keys, events, v, am, att) ==
  IF keys = <<>> THEN [am |-> am, att |-> att, thrown |-> FALSE]
  ELSE LET key == Head(keys)
           e == events.m[key]
       IN IF e.t = "null" THEN [am |-> am, att |-> att, thrown |-> TRUE]
          ELSE IF ~Truthy(Field(e, "lat")) \/ ~Truthy(Field(e, "lon"))
            THEN EntriesLoop(Tail(keys), events, v, am, att)
          ELSE LET color == IF v = "p003" THEN ColorOf_p003[Field(e, "topic")]
                            ELSE ColorOf_p000[Field(e, "topic")]
                   minZoom == CASE v = "p003" -> ZoomOf_p003[Field(e, "importance")]
                                [] v = "p002" -> ZoomOf_p002[Field(e, "importance")]
                                [] OTHER -> ZoomOf_p000[Field(e, "importance")]
                   id == FreshId(am, att)
                   entry == [marker |-> [id |-> id, color |-> color, topic |-> Undef],
                             minZoom |-> minZoom]
               IN EntriesLoop(Tail(keys), events, v,
                              (key :> entry) @@ am, att \cup {id})

\* the "value" callback of setupRealtimeListener in part_000 / part_002 /
\* part_003
onValue_p(events, v, am, att, z) ==
  LET c == clearMarkers(am, att)
  IN IF SnapFalsy(events)
       THEN [am |-> c.am, att |-> c.att, thrown |-> FALSE, calls |-> <<>>,
             registered |-> FALSE]
       ELSE LET r == EntriesLoop(EntriesOf(events), events, v, c.am, c.att)
            IN IF r.thrown
                 THEN [am |-> r.am, att |-> r.att, thrown |-> TRUE, calls |-> <<>>,
                       registered |-> FALSE]
                 ELSE LET u == updateMarkerVisibility(r.am, r.att, z)
                      IN [am |-> u.am, att |-> u.att, thrown |-> FALSE,
                          calls |-> u.calls, registered |-> TRUE]

\* ---------------------------------------------------------------------
\* Snapshot handling, part_001 (first variant)
\* ---------------------------------------------------------------------
\* Object.values(activeMarkers).forEach(m => map.removeLayer(m)): m is the
\* stored { marker, minZoom } object, which is no layer of the map, so
\* removeLayer finds nothing under its stamp and returns
removeStored(am, att) == att

\* body of for (const [key, event] of Object.entries(events));
\* destructuring a null entry is a TypeError that ends the handler
RECURSIVE EntriesLoop_p001(_, _, _, _)
EntriesLoop_p001(keys, events, am, att) ==
  IF keys = <<>> THEN [am |-> am, att |-> att, thrown |-> FALSE]
  ELSE LET key == Head(keys)
           event == events.m[key]
       IN IF event.t = "null" THEN [am |-> am, att |-> att, thrown |-> TRUE]
          ELSE IF ~Truthy(Field(event, "lat")) \/ ~Truthy(Field(event, "lon"))
            THEN EntriesLoop_p001(Tail(keys), events, am, att)
          ELSE LET color == ColorOf_p001[Field(event, "topic")]
                   minZoom == ZoomOf_p001[Field(event, "importance")]
                   id == FreshId(am, att)
                   entry == [marker |-> [id |-> id, color |-> color, topic |-> Undef],
                             minZoom |-> minZoom]
               IN EntriesLoop_p001(Tail(keys), events,
                                   (key :> entry) @@ am, att \cup {id})

\* the "value" callback of setupRealtimeListener in part_001: no call of
\* a visibility function, no zoomend listener
onValue_p001(events, am, att, z) ==
  IF SnapFalsy(events)
    THEN [am |-> am, att |-> att, thrown |-> FALSE, calls |-> <<>>,
          registered |-> FALSE]
    ELSE LET r == EntriesLoop_p001(EntriesOf(events), events, NoMarkers,
                                   removeStored(am, att))
         IN [am |-> r.am, att |-> r.att, thrown |-> r.thrown, calls |-> <<>>,
             registered |-> FALSE]

\* ---------------------------------------------------------------------
\* Hurricane overlay, part_003
\* ---------------------------------------------------------------------
Storm(lat, lon) == Rec(lat, lon, Undef, Undef)

\* the storms a snapshot of /hurricanes can hold for an id: two with both
\* coordinates, one with lat 0, one without lon
StormChoices ==
  { Storm(Num(25), Num(-80)), Storm(Num(14), Num(121)),
    Storm(Num(0), Num(10)), Storm(Num(18), Undef) }

HurricaneSnapshots ==
  {NullSnap} \cup
  { [t |-> "object", m |-> f] :
      f \in UNION { [D -> StormChoices] : D \in (SUBSET Ids) \ {{}} } }

\* Object.values(hurricaneMarkers)
HurricaneHandles(hm) == { hm[k] : k \in DOMAIN hm }

\* L.marker(...) returns a new object
FreshHandle(hm, layer) ==
  LET used == HurricaneHandles(hm) \cup layer
  IN CHOOSE i \in 1..(Cardinality(used) + 1) :
       i \notin used /\ \A j \in 1..(i - 1) : j \in used

\* body of Object.entries(data).forEach; storm.lat on a null entry is a
\* TypeError that ends the forEach and the handler
RECURSIVE StormsLoop(_, _, _, _, _)
StormsLoop(keys, data, hm, layer, visible) ==
  IF keys = <<>> THEN [hm |-> hm, layer |-> layer, thrown |-> FALSE]
  ELSE LET key == Head(keys)
           storm == data.m[key]
       IN IF storm.t = "null" THEN [hm |-> hm, layer |-> layer, thrown |-> TRUE]
          ELSE IF ~Truthy(Field(storm, "lat")) \/ ~Truthy(Field(storm, "lon"))
            THEN StormsLoop(Tail(keys), data, hm, layer, visible)
          ELSE LET marker == FreshHandle(hm, layer)
               IN StormsLoop(Tail(keys), data, (key :> marker) @@ hm,
                             IF visible THEN layer \cup {marker} ELSE layer, visible)

\* variant of the handler that does not remove the stored markers
onHurricanes_noRemove(data, hm, layer, visible) ==
  IF SnapFalsy(data)
    THEN [hm |-> NoMarkers, layer |-> layer, thrown |-> FALSE]
    ELSE StormsLoop(EntriesOf(data), data, NoMarkers, layer, visible)

\* the "value" callback of setupHurricaneListener
onHurricanes(data, hm, layer, visible) ==
  LET cleared == layer \ HurricaneHandles(hm)
  IN IF SnapFalsy(data)
       THEN [hm |-> NoMarkers, layer |-> cleared, thrown |-> FALSE]
       ELSE StormsLoop(EntriesOf(data), data, NoMarkers, cleared, visible)

\* the "change" listener of the hurricane toggle
onToggleHurricanes(checked, hm, layer) ==
  [visible |-> checked,
   layer |-> IF checked THEN layer \cup HurricaneHandles(hm)
             ELSE layer \ HurricaneHandles(hm)]

\* ---------------------------------------------------------------------
\* Hurricane icons, part_002: getColoredSvgDataUrl and its cache
\* ---------------------------------------------------------------------
\* String(color).toLowerCase()
CacheKey(color) == toLowerCase(ToStringJS(color))

\* svgDataUrlCache[key]: undefined for a key never stored
CacheGet(cache, key) == IF key \in DOMAIN cache THEN cache[key] ELSE Undef

\* svgDataUrlCache[key] = v
CachePut(cache, key, v) == (key :> v) @@ cache

\* the data URL of the icon text with its fill set to the color as passed
DataUrl(color) == Str(<<"d", "a", "t", "a", ":">> \o ToStringJS(color))

\* getColoredSvgDataUrl up to its first await:
\* if (svgDataUrlCache[key]) return svgDataUrlCache[key]; ... fetch(ICON_PATH)
beginColoredSvg(color, cache) ==
  LET key == CacheKey(color)
  IN IF Truthy(CacheGet(cache, key))
       THEN [pc |-> "returned", result |-> CacheGet(cache, key), fetches |-> 0]
       ELSE [pc |-> "fetching", result |-> Undef, fetches |-> 1]

\* getColoredSvgDataUrl resumed after await fetch(ICON_PATH) (pc "fetching")
\* or after await res.text() (pc "reading"); ok is false when the promise
\* rejects or, for the fetch, when res.ok is false
resumeColoredSvg(pc, color, ok, cache) ==
  LET key == CacheKey(color)
  IN IF ~ok
       THEN [pc |-> "returned", result |-> Null, cache |-> CachePut(cache, key, Null)]
     ELSE IF pc = "fetching"
       THEN [pc |-> "reading", result |-> Undef, cache |-> cache]
     ELSE [pc |-> "returned", result |-> DataUrl(color),
           cache |-> CachePut(cache, key, DataUrl(color))]

\* ALERT_COLOR_MAP
AlertRed == Str(<<"#", "f", "f", "4", "d", "4", "d">>)
AlertOrange == Str(<<"#", "f", "f", "9", "a", "3", "c">>)
AlertYellow == Str(<<"#", "f", "f", "d", "2", "4", "d">>)
AlertGreen == Str(<<"#", "7", "d", "d", "3", "6", "b">>)

\* ALERT_COLOR_MAP[(props.alertlevel || "default").toLowerCase()]
\*   || ALERT_COLOR_MAP.default
AlertColor(alertlevel) ==
  LET alert == IF Truthy(alertlevel) THEN toLowerCase(ToStringJS(alertlevel))
               ELSE <<"d", "e", "f", "a", "u", "l", "t">>
  IN CASE alert = <<"r", "e", "d">> -> AlertRed
       [] alert = <<"o", "r", "a", "n", "g", "e">> -> AlertOrange
       [] alert = <<"y", "e", "l", "l", "o", "w">> -> AlertYellow
       [] alert = <<"g", "r", "e", "e", "n">> -> AlertGreen
       [] OTHER -> AlertYellow

\* ---------------------------------------------------------------------
\* Hurricane overlay, part_002: fetchHurricanes
\* ---------------------------------------------------------------------
\* a feature of the GDACS response: whether it has geometry.coordinates,
\* and its properties.alertlevel
Feature(geometry, alertlevel) == [geometry |-> geometry, alertlevel |-> alertlevel]

\* data.features of the responses the GDACS endpoint gives
GdacsResponses ==
  { << Feature(TRUE, Str(<<"R", "e", "d">>)) >>,
    << Feature(FALSE, Undef), Feature(TRUE, Str(<<"o", "r", "a", "n", "g", "e">>)) >>,
    << Feature(TRUE, Str(<<"R", "e", "d">>)), Feature(TRUE, Undef) >> }

\* the for loop from feature i on: features without geometry are skipped
\* (continue); at the first one with geometry the invocation calls
\* createSvgLeafletIcon -> getColoredSvgDataUrl and awaits; after the last
\* feature it completes.  Result [task, fetches].
RECURSIVE enterFeature(_, _, _)
enterFeature(task, i, cache) ==
  IF i > Len(task.features)
    THEN [task |-> [task EXCEPT !.pc = "done", !.i = i, !.color = Undef,
                                !.dataUrl = Undef],
          fetches |-> 0]
  ELSE IF ~task.features[i].geometry THEN enterFeature(task, i + 1, cache)
  ELSE LET color == AlertColor(task.features[i].alertlevel)
           b == beginColoredSvg(color, cache)
       IN [task |-> [task EXCEPT
                       !.pc = IF b.pc = "returned" THEN "iconReturned" ELSE "iconFetching",
                       !.i = i, !.color = color, !.dataUrl = b.result],
           fetches |-> b.fetches]

\* fetchHurricanes resumed after await res.json(): a rejection goes to the
\* catch; otherwise hurricaneLayer.clearLayers() and the loop starts
jsonSettles(task, ok, features, layer, cache) ==
  IF ~ok THEN [task |-> [task EXCEPT !.pc = "done"], layer |-> layer, fetches |-> 0]
  ELSE LET e == enterFeature([task EXCEPT !.loaded = TRUE, !.features = features], 1, cache)
       IN [task |-> e.task, layer |-> {}, fetches |-> e.fetches]

\* fetchHurricanes resumed with the value of createSvgLeafletIcon: an icon
\* marker if the data URL is truthy, else the circle marker fallback, is
\* added to hurricaneLayer and the loop goes on
iconReturns(t, task, layer, cache) ==
  LET marker == [inv |-> t, f |-> task.i, icon |-> Truthy(task.dataUrl)]
      e == enterFeature(task, task.i + 1, cache)
  IN [task |-> e.task, layer |-> layer \cup {marker}, fetches |-> e.fetches]

\* ---------------------------------------------------------------------
\* Tile sources and theme, src/app.js
\* ---------------------------------------------------------------------
PLACEHOLDER == <<"P", "L", "A", "C", "E", "H", "O", "L", "D", "E", "R">>

\* String.prototype.includes
Includes(s, sub) ==
  \E i \in 0..(Len(s) - Len(sub)) : SubSeq(s, i + 1, i + Len(sub)) = sub

\* Object.keys(getTileSources(maptilerKey)), in insertion order
getTileSources(key) ==
  IF ~Truthy(key) \/ key.t # "string" \/ Includes(key.s, PLACEHOLDER)
    THEN <<"dark", "light">>
    ELSE <<"dark", "light", "solarized", "satellite">>

SeqRange(q) == { q[i] : i \in 1..Len(q) }

\* the values MAPTILER_KEY can have on the page
KeyChoices == { Null, Str(<<"%">> \o PLACEHOLDER \o <<"%">>), Str(<<"k", "3", "y">>) }

St(msg) == [msg |-> msg, n |-> 0, theme |-> ""]

\* recolor markers for light/dark (the forEach at the end of changeTheme)
Recolor(am, theme) ==
  [k \in DOMAIN am |->
     LET topic == IF Truthy(am[k].marker.topic) THEN am[k].marker.topic ELSE Str(other)
     IN [am[k] EXCEPT !.marker.color = ColorOf[topic, theme]]]

\* variant of changeTheme that leaves the markers' style alone
changeTheme_noRecolor(theme, tiles, am) ==
  LET th == IF theme \in SeqRange(tiles) THEN theme ELSE tiles[1]
  IN [theme |-> th, tileLayer |-> th, am |-> am]

\* changeTheme(theme, tiles): result [theme, tileLayer, am]
changeTheme(theme, tiles, am) ==
  LET th == IF theme \in SeqRange(tiles) THEN theme ELSE tiles[1]
  IN [theme |-> th, tileLayer |-> th, am |-> Recolor(am, th)]

\* ---------------------------------------------------------------------
\* Classifier inputs
\* ---------------------------------------------------------------------
ImpChars == {"0", "1", "2", "3", "4", "5", "6", "9", " ", "-", ".", "a", "x"}

ImpStrings == UNION { [1..n -> ImpChars] : n \in 0..MaxImpLen }

ImportanceInputs ==
  {Undef, Null} \cup { Num(i) : i \in -1..7 } \cup { Str(q) : q \in ImpStrings }

ListedTopics ==
  { geopolitics, conflict, diplomacy, security, economy, finance,
    technology, cyber, science, environment, disaster, energy }

\* s in upper case, and s with its first letter in upper case
toUpperCase(s) ==
  [i \in 1..Len(s) |->
     IF \E j \in 1..26 : LowerCase[j] = s[i]
       THEN UpperCase[CHOOSE j \in 1..26 : LowerCase[j] = s[i]]
       ELSE s[i]]
Capitalize(s) == [i \in 1..Len(s) |-> IF i = 1 THEN toUpperCase(s)[1] ELSE s[i]]

TopicInputs ==
  {Undef, Null, Str(<<>>)} \cup
  UNION { {Str(q), Str(toUpperCase(q)), Str(Capitalize(q))} :
          q \in ListedTopics \cup {tech, other} }

NoInput == [kind |-> "none", x |-> Undef]
NoOutput == [done |-> FALSE, zoomApp |-> 0, zoomP000 |-> 0, zoomP002 |-> 0,
             zoomP003 |-> 0, zoomP001 |-> 0, colorApp |-> "", colorP000 |-> "",
             colorP003 |-> "", colorP001 |-> ""]

\* ---------------------------------------------------------------------
\* Initial state: initMap has completed, the listeners are set up
\* ---------------------------------------------------------------------
\* a fetchHurricanes invocation that has not started, a getColoredSvgDataUrl
\* call that has not been made
IdleTask == [pc |-> "idle", loaded |-> FALSE, features |-> <<>>, i |-> 0,
             color |-> Undef, dataUrl |-> Undef]
IdleCall == [pc |-> "idle", color |-> Undef, result |-> Undef]

NoOp == [op |-> "init", events |-> NullSnap, thrown |-> FALSE, runs |-> <<>>,
         zoomBefore |-> InitialZoom]

\* src/app.js initMap
initMap ==
  /\ variant = "app"
  /\ maptilerKey \in KeyChoices
  /\ currentTheme \in InitialThemes
  /\ LET availableThemes == getTileSources(maptilerKey)
     IN tileLayer = IF currentTheme \in SeqRange(availableThemes)
                      THEN currentTheme ELSE availableThemes[1]
  /\ status = St("connecting to Firebase...")

\* part_000 / part_003 initMap: dark tiles, no status element
initMap_p ==
  /\ variant \in {"p000", "p003"}
  /\ maptilerKey = Null
  /\ currentTheme = "dark"
  /\ tileLayer = "dark"
  /\ status = St("")

\* no hurricane data has arrived, no fetchHurricanes invocation and no
\* icon call has started
InitOverlays ==
  /\ hurricaneMarkers = NoMarkers
  /\ hurricaneLayer = {}
  /\ hurricanesVisible = TRUE
  /\ tasks = [t \in 1..MaxInvocations |-> IdleTask]
  /\ svgDataUrlCache = NoMarkers
  /\ iconCalls = [c \in 1..MaxCalls |-> IdleCall]
  /\ iconFetches = 0

InitMarkers ==
  /\ InitOverlays
  /\ activeMarkers = NoMarkers
  /\ attached = {}
  /\ zoom = InitialZoom
  /\ zoomendRegs = 0
  /\ last = NoOp
  /\ fnIn = NoInput
  /\ fnOut = NoOutput

\* src/app.js on a page without a MapTiler key and with the dark theme
Init ==
  /\ initMap
  /\ maptilerKey = Null
  /\ currentTheme = "dark"
  /\ InitMarkers

\* part_000 or part_003
InitP ==
  /\ initMap_p
  /\ InitMarkers

\* ---------------------------------------------------------------------
\* Actions of the controller
\* ---------------------------------------------------------------------
Min(a, b) == IF a < b THEN a ELSE b

\* the feed delivers a snapshot to src/app.js
Snapshot ==
  /\ variant = "app"
  /\ \E events \in SnapshotsApp :
       \E r \in {onValue(events, currentTheme, activeMarkers, attached, zoom)} :
          /\ activeMarkers' = r.am
          /\ attached' = r.att
          /\ zoomendRegs' = IF r.registered THEN Min(zoomendRegs + 1, MaxRegs)
                            ELSE zoomendRegs
          /\ status' = IF SnapFalsy(events) THEN St("no events")
                       ELSE [St("events displayed") EXCEPT !.n = Cardinality(DOMAIN r.am)]
          /\ last' = [op |-> "snapshot", events |-> events, thrown |-> r.thrown,
                      runs |-> <<r.calls>>, zoomBefore |-> zoom]
  /\ UNCHANGED <<hvars, variant, zoom, currentTheme, tileLayer, maptilerKey, fnIn, fnOut>>

\* the feed delivers a snapshot to part_000 / part_003
Snapshot_p ==
  /\ variant \in {"p000", "p003"}
  /\ \E events \in SnapshotsP :
       \E r \in {onValue_p(events, variant, activeMarkers, attached, zoom)} :
          /\ activeMarkers' = r.am
          /\ attached' = r.att
          /\ zoomendRegs' = IF r.registered THEN Min(zoomendRegs + 1, MaxRegs)
                            ELSE zoomendRegs
          /\ last' = [op |-> "snapshot", events |-> events, thrown |-> r.thrown,
                      runs |-> <<r.calls>>, zoomBefore |-> zoom]
  /\ UNCHANGED <<hvars, variant, zoom, currentTheme, tileLayer, maptilerKey, status,
                 fnIn, fnOut>>

\* the map ends a zoom at level z and fires "zoomend": the handler runs
\* once if the map ignores repeated registrations, else once per registration
ZoomEnd ==
  \E z \in Zooms :
    \E n \in {Min(1, zoomendRegs), zoomendRegs} :
      \E r \in {RunListeners(n, z, [am |-> activeMarkers, att |-> attached, runs |-> <<>>])} :
         /\ zoom' = z
         /\ activeMarkers' = r.am
         /\ attached' = r.att
         /\ last' = [op |-> "zoomend", events |-> NullSnap, thrown |-> FALSE,
                     runs |-> r.runs, zoomBefore |-> zoom]
         /\ UNCHANGED <<hvars, variant, currentTheme, tileLayer, maptilerKey, zoomendRegs,
                        status, fnIn, fnOut>>

\* the feed invokes the error callback (only src/app.js passes one)
FeedError ==
  /\ variant = "app"
  /\ \E r \in {onFeedError(activeMarkers, attached)} :
        /\ activeMarkers' = r.am
        /\ attached' = r.att
        /\ status' = St(r.status)
        /\ last' = [op |-> "error", events |-> NullSnap, thrown |-> r.thrown,
                    runs |-> <<>>, zoomBefore |-> zoom]
  /\ UNCHANGED <<hvars, variant, zoom, currentTheme, tileLayer, maptilerKey, zoomendRegs,
                 fnIn, fnOut>>

\* the theme selector (or any caller) invokes changeTheme
ChangeTheme ==
  /\ variant = "app"
  /\ \E theme \in ThemeInputs :
       \E r \in {changeTheme(theme, getTileSources(maptilerKey), activeMarkers)} :
          /\ currentTheme' = r.theme
          /\ tileLayer' = r.tileLayer
          /\ activeMarkers' = r.am
          /\ status' = [St("theme") EXCEPT !.theme = r.theme]
  /\ last' = [op |-> "theme", events |-> NullSnap, thrown |-> FALSE,
              runs |-> <<>>, zoomBefore |-> zoom]
  /\ UNCHANGED <<hvars, variant, attached, zoom, maptilerKey, zoomendRegs, fnIn, fnOut>>

Next == Snapshot \/ ZoomEnd \/ FeedError \/ ChangeTheme

Spec == Init /\ [][Next]_vars

NextP == Snapshot_p \/ ZoomEnd

SpecP == InitP /\ [][NextP]_vars

\* ---------------------------------------------------------------------
\* src/app.js, part_001 and part_002 driven by one feed
\* ---------------------------------------------------------------------
\* part_001 initMap: dark tiles; the news listener is set up
initMap_p001 ==
  /\ variant = "p001"
  /\ maptilerKey = Null
  /\ currentTheme = "dark"
  /\ tileLayer = "dark"
  /\ status = St("")

\* part_002 initMap: the tiles of the saved theme, dark unless "light"
initMap_p002 ==
  /\ variant = "p002"
  /\ maptilerKey = Null
  /\ currentTheme \in {"dark", "light"}
  /\ tileLayer = currentTheme
  /\ status = St("")

InitVariants ==
  /\ \/ initMap /\ maptilerKey = Null /\ currentTheme = "dark"
     \/ initMap_p001
     \/ initMap_p002
  /\ InitMarkers

\* the feed delivers a snapshot to the script that runs
Snapshot_v ==
  \E events \in SnapshotsV :
    \E r \in { CASE variant = "app" ->
                     onValue(events, currentTheme, activeMarkers, attached, zoom)
                [] variant = "p001" ->
                     onValue_p001(events, activeMarkers, attached, zoom)
                [] OTHER ->
                     onValue_p(events, variant, activeMarkers, attached, zoom) } :
       /\ Cardinality(r.att) <= MaxLayers
       /\ activeMarkers' = r.am
       /\ attached' = r.att
       /\ zoomendRegs' = IF r.registered THEN Min(zoomendRegs + 1, MaxRegs)
                         ELSE zoomendRegs
       /\ status' = IF variant # "app" THEN status
                    ELSE IF SnapFalsy(events) THEN St("no events")
                    ELSE [St("events displayed") EXCEPT !.n = Cardinality(DOMAIN r.am)]
       /\ last' = [op |-> "snapshot", events |-> events, thrown |-> r.thrown,
                   runs |-> <<r.calls>>, zoomBefore |-> zoom]
       /\ UNCHANGED <<hvars, variant, zoom, currentTheme, tileLayer, maptilerKey,
                      fnIn, fnOut>>

NextVariants == Snapshot_v \/ ZoomEnd

SpecVariants == InitVariants /\ [][NextVariants]_vars

\* ---------------------------------------------------------------------
\* src/app.js with any MapTiler key and any initial theme, small feed
\* ---------------------------------------------------------------------
InitTheme ==
  /\ initMap
  /\ InitMarkers

NextTheme == ChangeTheme \/ Snapshot_v

SpecTheme == InitTheme /\ [][NextTheme]_vars

\* ---------------------------------------------------------------------
\* part_003: the hurricane overlay
\* ---------------------------------------------------------------------
InitHurricanes ==
  /\ initMap_p
  /\ variant = "p003"
  /\ InitMarkers

\* the feed delivers a snapshot of /hurricanes
HurricaneSnapshot ==
  /\ variant = "p003"
  /\ \E data \in HurricaneSnapshots :
       \E r \in {onHurricanes(data, hurricaneMarkers, hurricaneLayer, hurricanesVisible)} :
          /\ hurricaneMarkers' = r.hm
          /\ hurricaneLayer' = r.layer
          /\ last' = [op |-> "hurricanes", events |-> data, thrown |-> r.thrown,
                      runs |-> <<>>, zoomBefore |-> zoom]
  /\ UNCHANGED <<variant, activeMarkers, attached, zoom, currentTheme, tileLayer,
                 maptilerKey, zoomendRegs, status, fnIn, fnOut, hurricanesVisible,
                 tasks, svgDataUrlCache, iconCalls, iconFetches>>

\* the hurricane checkbox changes to checked or unchecked
HurricaneToggle ==
  /\ variant = "p003"
  /\ \E checked \in BOOLEAN :
       \E r \in {onToggleHurricanes(checked, hurricaneMarkers, hurricaneLayer)} :
          /\ hurricanesVisible' = r.visible
          /\ hurricaneLayer' = r.layer
  /\ last' = [op |-> "toggle", events |-> NullSnap, thrown |-> FALSE,
              runs |-> <<>>, zoomBefore |-> zoom]
  /\ UNCHANGED <<variant, activeMarkers, attached, zoom, currentTheme, tileLayer,
                 maptilerKey, zoomendRegs, status, fnIn, fnOut, hurricaneMarkers,
                 tasks, svgDataUrlCache, iconCalls, iconFetches>>

NextHurricanes == HurricaneSnapshot \/ HurricaneToggle \/ ZoomEnd

SpecHurricanes == InitHurricanes /\ [][NextHurricanes]_vars

\* ---------------------------------------------------------------------
\* part_002: fetchHurricanes invocations, each await a point where the
\* other invocations may run
\* ---------------------------------------------------------------------
InitFetch ==
  /\ initMap_p002
  /\ InitMarkers

Step(op) == [NoOp EXCEPT !.op = op]

\* initMap or the 15-minute timer starts the next invocation
TaskStart ==
  /\ \E t \in 1..MaxInvocations :
       /\ tasks[t].pc = "idle"
       /\ \A d \in 1..(t - 1) : tasks[d].pc # "idle"
       /\ tasks' = [tasks EXCEPT ![t].pc = "fetching"]
  /\ last' = Step("fetchHurricanes")
  /\ UNCHANGED <<variant, activeMarkers, attached, zoom, currentTheme, tileLayer,
                 maptilerKey, zoomendRegs, status, fnIn, fnOut, hurricaneMarkers,
                 hurricaneLayer, hurricanesVisible, svgDataUrlCache, iconCalls,
                 iconFetches>>

\* await fetch(GDACS_URL) settles: a rejection or !res.ok goes to the catch
TaskFetchSettles ==
  /\ \E t \in 1..MaxInvocations : \E ok \in BOOLEAN :
       /\ tasks[t].pc = "fetching"
       /\ tasks' = [tasks EXCEPT ![t].pc = IF ok THEN "json" ELSE "done"]
  /\ last' = Step("fetch settles")
  /\ UNCHANGED <<variant, activeMarkers, attached, zoom, currentTheme, tileLayer,
                 maptilerKey, zoomendRegs, status, fnIn, fnOut, hurricaneMarkers,
                 hurricaneLayer, hurricanesVisible, svgDataUrlCache, iconCalls,
                 iconFetches>>

\* await res.json() settles
TaskJsonSettles ==
  /\ \E t \in 1..MaxInvocations : \E ok \in BOOLEAN : \E features \in GdacsResponses :
       /\ tasks[t].pc = "json"
       /\ \E r \in {jsonSettles(tasks[t], ok, features, hurricaneLayer, svgDataUrlCache)} :
            /\ tasks' = [tasks EXCEPT ![t] = r.task]
            /\ hurricaneLayer' = r.layer
            /\ iconFetches' = iconFetches + r.fetches
  /\ last' = Step("json settles")
  /\ UNCHANGED <<variant, activeMarkers, attached, zoom, currentTheme, tileLayer,
                 maptilerKey, zoomendRegs, status, fnIn, fnOut, hurricaneMarkers,
                 hurricanesVisible, svgDataUrlCache, iconCalls>>

\* inside getColoredSvgDataUrl, await fetch(ICON_PATH) or await res.text()
\* settles
TaskIconSettles ==
  /\ \E t \in 1..MaxInvocations : \E ok \in BOOLEAN :
       /\ tasks[t].pc \in {"iconFetching", "iconReading"}
       /\ \E r \in {resumeColoredSvg(IF tasks[t].pc = "iconFetching" THEN "fetching"
                                     ELSE "reading",
                                     tasks[t].color, ok, svgDataUrlCache)} :
            /\ tasks' = [tasks EXCEPT
                           ![t].pc = IF r.pc = "reading" THEN "iconReading"
                                     ELSE "iconReturned",
                           ![t].dataUrl = r.result]
            /\ svgDataUrlCache' = r.cache
  /\ last' = Step("icon settles")
  /\ UNCHANGED <<variant, activeMarkers, attached, zoom, currentTheme, tileLayer,
                 maptilerKey, zoomendRegs, status, fnIn, fnOut, hurricaneMarkers,
                 hurricaneLayer, hurricanesVisible, iconCalls, iconFetches>>

\* await createSvgLeafletIcon(color, 36) yields its value
TaskIconReturns ==
  /\ \E t \in 1..MaxInvocations :
       /\ tasks[t].pc = "iconReturned"
       /\ \E r \in {iconReturns(t, tasks[t], hurricaneLayer, svgDataUrlCache)} :
            /\ tasks' = [tasks EXCEPT ![t] = r.task]
            /\ hurricaneLayer' = r.layer
            /\ iconFetches' = iconFetches + r.fetches
  /\ last' = Step("icon returns")
  /\ UNCHANGED <<variant, activeMarkers, attached, zoom, currentTheme, tileLayer,
                 maptilerKey, zoomendRegs, status, fnIn, fnOut, hurricaneMarkers,
                 hurricanesVisible, svgDataUrlCache, iconCalls>>

NextFetch ==
  TaskStart \/ TaskFetchSettles \/ TaskJsonSettles \/ TaskIconSettles \/ TaskIconReturns

SpecFetch == InitFetch /\ [][NextFetch]_vars

\* ---------------------------------------------------------------------
\* part_002: getColoredSvgDataUrl called with colors in either casing;
\* the calls are numbered in the order in which they are made
\* ---------------------------------------------------------------------
IconColors == { AlertRed, Str(<<"#", "F", "F", "4", "D", "4", "D">>), AlertOrange }

InitIcon ==
  /\ initMap_p002
  /\ InitMarkers

\* a caller invokes getColoredSvgDataUrl(color)
IconCall ==
  /\ \E c \in 1..MaxCalls : \E color \in IconColors :
       /\ iconCalls[c].pc = "idle"
       /\ \A d \in 1..(c - 1) : iconCalls[d].pc # "idle"
       /\ \E b \in {beginColoredSvg(color, svgDataUrlCache)} :
            /\ iconCalls' = [iconCalls EXCEPT
                               ![c] = [pc |-> b.pc, color |-> color, result |-> b.result]]
            /\ iconFetches' = iconFetches + b.fetches
  /\ last' = Step("getColoredSvgDataUrl")
  /\ UNCHANGED <<variant, activeMarkers, attached, zoom, currentTheme, tileLayer,
                 maptilerKey, zoomendRegs, status, fnIn, fnOut, hurricaneMarkers,
                 hurricaneLayer, hurricanesVisible, tasks, svgDataUrlCache>>

\* await fetch(ICON_PATH) or await res.text() of a call settles
IconSettles ==
  /\ \E c \in 1..MaxCalls : \E ok \in BOOLEAN :
       /\ iconCalls[c].pc \in {"fetching", "reading"}
       /\ \E r \in {resumeColoredSvg(iconCalls[c].pc, iconCalls[c].color, ok,
                                     svgDataUrlCache)} :
            /\ iconCalls' = [iconCalls EXCEPT ![c].pc = r.pc, ![c].result = r.result]
            /\ svgDataUrlCache' = r.cache
  /\ last' = Step("icon settles")
  /\ UNCHANGED <<variant, activeMarkers, attached, zoom, currentTheme, tileLayer,
                 maptilerKey, zoomendRegs, status, fnIn, fnOut, hurricaneMarkers,
                 hurricaneLayer, hurricanesVisible, tasks, iconFetches>>

NextIcon == IconCall \/ IconSettles

SpecIcon == InitIcon /\ [][NextIcon]_vars

\* ---------------------------------------------------------------------
\* Classifier specification: one input, every variant applied to it
\* ---------------------------------------------------------------------
InitClassify ==
  /\ InitOverlays
  /\ variant = "app"
  /\ maptilerKey = Str(<<"k", "3", "y">>)
  /\ currentTheme \in SeqRange(getTileSources(maptilerKey))
  /\ tileLayer = currentTheme
  /\ status = St("connecting to Firebase...")
  /\ activeMarkers = NoMarkers
  /\ attached = {}
  /\ zoom = InitialZoom
  /\ zoomendRegs = 0
  /\ last = NoOp
  /\ fnIn \in { [kind |-> "importance", x |-> i] : i \in ImportanceInputs } \cup
              { [kind |-> "topic", x |-> t] : t \in TopicInputs }
  /\ fnOut = NoOutput

ClassifyImportance ==
  /\ fnIn.kind = "importance"
  /\ ~fnOut.done
  /\ fnOut' = [NoOutput EXCEPT !.done = TRUE,
                 !.zoomApp = getMinZoomForImportance(fnIn.x),
                 !.zoomP000 = getMinZoomForImportance_p000(fnIn.x),
                 !.zoomP002 = getMinZoomForImportance_p002(fnIn.x),
                 !.zoomP003 = getMinZoomForImportance_p003(fnIn.x),
                 !.zoomP001 = getMinZoom(fnIn.x)]
  /\ UNCHANGED <<hvars, variant, activeMarkers, attached, zoom, currentTheme, tileLayer,
                 maptilerKey, zoomendRegs, status, last, fnIn>>

ClassifyTopic ==
  /\ fnIn.kind = "topic"
  /\ ~fnOut.done
  /\ fnOut' = [NoOutput EXCEPT !.done = TRUE,
                 !.colorApp = getTopicColor(fnIn.x, currentTheme),
                 !.colorP000 = getTopicColor_p000(fnIn.x),
                 !.colorP003 = getTopicColor_p003(fnIn.x),
                 !.colorP001 = getTopicColor_p001(fnIn.x)]
  /\ UNCHANGED <<hvars, variant, activeMarkers, attached, zoom, currentTheme, tileLayer,
                 maptilerKey, zoomendRegs, status, last, fnIn>>

NextClassify == ClassifyImportance \/ ClassifyTopic

SpecClassify == InitClassify /\ [][NextClassify]_vars

\* ---------------------------------------------------------------------
\* Properties
\* ---------------------------------------------------------------------
\* a record that has both coordinates: lat and lon are non-zero numbers
HasCoords(e) ==
  /\ e.t = "object"
  /\ e.lat.t = "number" /\ e.lat.n # 0
  /\ e.lon.t = "number" /\ e.lon.n # 0

\* the ids of a snapshot whose record has both coordinates
IdsWithCoords(events) ==
  IF events.t = "object"
    THEN { k \in DOMAIN events.m : HasCoords(events.m[k]) }
    ELSE {}

\* the handles of the entries whose minZoom the zoom level z reaches
VisibleAt(am, z) == { am[k].marker.id : k \in { j \in DOMAIN am : am[j].minZoom <= z } }

\* C1: after src/app.js has handled a non-empty snapshot S, the key set of
\* activeMarkers is exactly the set of ids of S whose record has both lat
\* and lon; no id of an earlier snapshot remains.
C1_KeySetIsLatestSnapshot ==
  (last.op = "snapshot" /\ last.events.t # "null")
    => DOMAIN activeMarkers = IdsWithCoords(last.events)

\* a snapshot was rendered after at least one earlier render, and it holds
\* an id without a marker entry next to one with an entry
C1_Witness ==
  /\ last.op = "snapshot" /\ last.events.t = "object"
  /\ zoomendRegs >= 2
  /\ DOMAIN activeMarkers # {}
  /\ DOMAIN last.events.m \ DOMAIN activeMarkers # {}

\* C2: after an empty snapshot ("no events") has been handled,
\* activeMarkers is empty and no event marker is attached to the map.
C2_EmptySnapshotClears ==
  (last.op = "snapshot" /\ last.events.t = "null")
    => (activeMarkers = NoMarkers /\ attached = {})

\* C3: when src/app.js has handled a non-empty snapshot at zoom z, the
\* attached event markers are exactly the markers of the entries of
\* activeMarkers with minZoom <= z.
C3_AttachedAfterRender ==
  (last.op = "snapshot" /\ last.events.t # "null")
    => attached = VisibleAt(activeMarkers, zoom)

\* a render after an earlier one left one entry attached and one hidden
C3_Witness ==
  /\ last.op = "snapshot" /\ last.events.t = "object"
  /\ zoomendRegs >= 2
  /\ attached # {}
  /\ MarkerIds(activeMarkers) \ attached # {}

\* C4: after every zoom-change notification that follows a rendered
\* snapshot, each entry of activeMarkers is attached if and only if the
\* current zoom is >= its minZoom.
C4_VisibilityAfterZoom ==
  (last.op = "zoomend" /\ zoomendRegs >= 1)
    => \A k \in DOMAIN activeMarkers :
         (activeMarkers[k].marker.id \in attached) <=> (zoom >= activeMarkers[k].minZoom)

\* a zoom out that detached one marker and left another attached
C4_Witness ==
  /\ last.op = "zoomend" /\ zoomendRegs >= 1
  /\ zoom < last.zoomBefore
  /\ \E i \in 1..Len(last.runs) : \E j \in 1..Len(last.runs[i]) :
       last.runs[i][j][1] = "removeLayer"
  /\ attached # {}

\* C5: a run of updateMarkerVisibility that follows another run at the same
\* zoom makes no addLayer / removeLayer call, however many times the handler
\* was registered: within one notification only the first run makes calls,
\* each marker gets at most one call, and a notification at an unchanged
\* zoom makes none.
C5_VisibilityIdempotent ==
  last.op = "zoomend"
    => /\ \A i \in 2..Len(last.runs) : last.runs[i] = <<>>
       /\ \A i \in 1..Len(last.runs) : \A j, k \in 1..Len(last.runs[i]) :
            last.runs[i][j][2] = last.runs[i][k][2] => j = k
       /\ last.zoomBefore = zoom => \A i \in 1..Len(last.runs) : last.runs[i] = <<>>

\* the handler ran twice for one zoom change: calls in the first run only
C5_Witness ==
  /\ last.op = "zoomend"
  /\ Len(last.runs) = 2
  /\ Len(last.runs[1]) >= 2
  /\ last.runs[2] = <<>>

\* C6: a zoom-change notification leaves the key set of activeMarkers and
\* each entry's marker handle, minZoom and color unchanged.
C6_ZoomKeepsMarkers ==
  [][last'.op = "zoomend" => activeMarkers' = activeMarkers]_vars

\* a zoom change that attached or detached a marker
C6_Witness ==
  /\ last.op = "zoomend"
  /\ DOMAIN activeMarkers # {}
  /\ Len(last.runs) >= 1 /\ last.runs[1] # <<>>

C8_MalformedRecordSkipped ==
  (last.op = "snapshot" /\ last.events.t = "object" /\ ~last.thrown)
    => \A k \in DOMAIN last.events.m :
         LET e == last.events.m[k]
         IN (e.t = "object" /\ (e.lat.t = "undefined" \/ e.lon.t = "undefined"))
              => /\ k \notin DOMAIN activeMarkers
                 /\ attached \subseteq MarkerIds(activeMarkers)
                 /\ \A j \in DOMAIN last.events.m :
                      HasCoords(last.events.m[j])
                        => /\ j \in DOMAIN activeMarkers
                           /\ (activeMarkers[j].marker.id \in attached)
                                <=> (zoom >= activeMarkers[j].minZoom)

\* the first record of the snapshot lacks a coordinate, a later one is shown
C8_Witness ==
  /\ last.op = "snapshot" /\ last.events.t = "object" /\ ~last.thrown
  /\ DOMAIN last.events.m = {1, 2}
  /\ last.events.m[1].t = "object" /\ last.events.m[1].lon.t = "undefined"
  /\ 2 \in DOMAIN activeMarkers
  /\ activeMarkers[2].marker.id \in attached

\* C9: the snapshot handler never throws, whatever the snapshot.
C9_HandlerNeverThrows ==
  last.op = "snapshot" => ~last.thrown

\* C10: getMinZoomForImportance maps 5, 4, 3, 2, 1 (integer or decimal
\* string) to 0, 3, 5, 7, 9, and its result is always one of {0, 3, 5, 7, 9},
\* in src/app.js, part_000 and part_002.
C10_MinZoomTable ==
  (fnOut.done /\ fnIn.kind = "importance")
    => LET table == <<9, 7, 5, 3, 0>>
           digit == <<"1", "2", "3", "4", "5">>
           outs == {fnOut.zoomApp, fnOut.zoomP000, fnOut.zoomP002}
       IN /\ outs \subseteq {0, 3, 5, 7, 9}
          /\ \A n \in 1..5 :
               (fnIn.x = Num(n) \/ fnIn.x = Str(<<digit[n]>>)) => outs = {table[n]}

\* the string "4" has been classified
C10_Witness ==
  /\ fnOut.done /\ fnIn.kind = "importance"
  /\ fnIn.x = Str(<<"4">>)
  /\ fnOut.zoomApp = 3

\* a string without any decimal digit, such as "abc"
NonNumeric(x) ==
  x.t = "string" /\ \A i \in 1..Len(x.s) : DigitVal(x.s[i], DecDigits) < 0

\* C11: an importance that is absent (undefined / null) or non-numeric
\* defaults to importance 3: getMinZoomForImportance returns 5 for it in
\* src/app.js, part_002 and part_003.
C11_AbsentImportanceDefaultsToThree ==
  (fnOut.done /\ fnIn.kind = "importance"
     /\ (fnIn.x \in {Undef, Null} \/ NonNumeric(fnIn.x)))
    => /\ fnOut.zoomApp = 5
       /\ fnOut.zoomP002 = 5
       /\ fnOut.zoomP003 = 5

\* C12: every numeric importance outside 1..5 (0, negative, 6 and above)
\* takes the default branch: src/app.js getMinZoomForImportance returns 9.
C12_OutOfRangeGivesNine ==
  (fnOut.done /\ fnIn.kind = "importance"
     /\ fnIn.x.t = "number" /\ fnIn.x.n \notin 1..5)
    => fnOut.zoomApp = 9

\* the four groups of listed topics
TopicGroups ==
  << {geopolitics, conflict, diplomacy, security}, {economy, finance},
     {technology, cyber, science}, {environment, disaster, energy} >>

\* the spellings of a topic the inputs carry: lower, upper, capitalized
Casings(q) == {Str(q), Str(toUpperCase(q)), Str(Capitalize(q))}

\* C13: getTopicColor of src/app.js and of part_000 / part_002 gives every
\* member of a topic group, in any letter casing, the color of that group;
\* the four group colors are pairwise distinct and the same under every
\* theme.
C13_TopicGroupsByCaseInsensitiveMembership ==
  LET app == <<"#ef4444", "#22c55e", "#0ea5e9", "#fb923c">>
      p000 == <<"red", "limegreen", "deepskyblue", "orange">>
  IN /\ Cardinality({app[g] : g \in 1..4}) = 4
     /\ Cardinality({p000[g] : g \in 1..4}) = 4
     /\ (fnOut.done /\ fnIn.kind = "topic")
          => \A g \in 1..4 : \A q \in TopicGroups[g] :
               fnIn.x \in Casings(q)
                 => /\ fnOut.colorApp = app[g]
                    /\ fnOut.colorP000 = p000[g]

\* "CYBER" has been classified under the satellite theme
C13_Witness ==
  /\ fnOut.done /\ fnIn.kind = "topic"
  /\ fnIn.x = Str(<<"C", "Y", "B", "E", "R">>)
  /\ currentTheme = "satellite"
  /\ fnOut.colorApp = "#0ea5e9"

\* C14: src/app.js getTopicColor returns the neutral color for "", for
\* undefined / null and for every topic that is not one of the twelve
\* listed ones in some casing (the prefix "tech" included); the neutral
\* color is #000000 under the light and satellite themes and #ffffff under
\* every other theme, and is none of the four group colors.
C14_NeutralForUnlisted ==
  (fnOut.done /\ fnIn.kind = "topic"
     /\ fnIn.x \notin UNION { Casings(q) : q \in ListedTopics })
    => /\ fnOut.colorApp =
            IF currentTheme \in {"light", "satellite"} THEN "#000000" ELSE "#ffffff"
       /\ fnOut.colorApp \notin {"#ef4444", "#22c55e", "#0ea5e9", "#fb923c"}

\* the prefix "tech" has been classified under the light theme
C14_Witness ==
  /\ fnOut.done /\ fnIn.kind = "topic"
  /\ fnIn.x = Str(tech)
  /\ currentTheme = "light"
  /\ fnOut.colorApp = "#000000"

\* a coordinate that is absent or exactly 0
ZeroOrAbsent(x) == x.t \in {"undefined", "null"} \/ x = Num(0)

\* C15: when src/app.js or part_002 has handled a snapshot, a record whose
\* lat or lon is absent or exactly 0 has no entry in activeMarkers and no
\* marker on the map: every attached marker belongs to another id's entry.
C15_FalsyCoordinateIgnored ==
  (variant \in {"app", "p002"} /\ last.op = "snapshot" /\ last.events.t = "object")
    => \A k \in DOMAIN last.events.m :
         (ZeroOrAbsent(last.events.m[k].lat) \/ ZeroOrAbsent(last.events.m[k].lon))
           => /\ k \notin DOMAIN activeMarkers
              /\ attached \subseteq
                   { activeMarkers[j].marker.id : j \in DOMAIN activeMarkers \ {k} }

\* a snapshot with a lat-0 record and a lon-0 record replaced shown markers
C15_Witness ==
  /\ variant \in {"app", "p002"}
  /\ last.op = "snapshot" /\ last.events.t = "object"
  /\ zoomendRegs >= 2
  /\ \E j, k \in DOMAIN last.events.m :
       /\ last.events.m[j].lat = Num(0)
       /\ last.events.m[k].lon = Num(0)
  /\ activeMarkers = NoMarkers
  /\ attached = {}

\* C16: after src/app.js or part_001 has handled a non-empty snapshot,
\* every event marker attached to the map is the marker of an entry of the
\* current activeMarkers: no marker of an earlier snapshot stays attached.
C16_NoOrphanMarkers ==
  (variant \in {"app", "p001"} /\ last.op = "snapshot" /\ last.events.t # "null")
    => attached \subseteq MarkerIds(activeMarkers)

\* C17: when part_001 has handled a snapshot, no marker whose minZoom is
\* greater than the current zoom is attached to the map.
C17_HiddenBelowMinZoom ==
  (variant = "p001" /\ last.op = "snapshot" /\ last.events.t # "null")
    => \A k \in DOMAIN activeMarkers :
         activeMarkers[k].minZoom > zoom => activeMarkers[k].marker.id \notin attached

\* C18: for each of the twelve listed topics, getTopicColor of part_001 and
\* of part_003 groups as src/app.js does (the topic shares its color with
\* exactly the listed topics it shares it with in app.js) and never gives
\* the neutral color; for an importance that is an integer 1..5, its
\* decimal string, or an integer above 5, getMinZoom of part_001 equals
\* getMinZoomForImportance of app.js.
C18_VariantsEquivalent ==
  /\ (fnOut.done /\ fnIn.kind = "topic" /\ fnIn.x \in { Str(q) : q \in ListedTopics })
       => /\ \A q \in ListedTopics :
               LET same == fnOut.colorApp = getTopicColor(Str(q), currentTheme)
               IN /\ (fnOut.colorP001 = getTopicColor_p001(Str(q))) <=> same
                  /\ (fnOut.colorP003 = getTopicColor_p003(Str(q))) <=> same
          /\ fnOut.colorP001 # "white"
          /\ fnOut.colorP003 # "white"
  /\ (fnOut.done /\ fnIn.kind = "importance"
        /\ \/ fnIn.x.t = "number" /\ fnIn.x.n >= 1
           \/ fnIn.x \in { Str(<<DecDigits[n + 1]>>) : n \in 1..5 })
       => fnOut.zoomP001 = fnOut.zoomApp

\* the color the classification rules give a topic under a theme
GroupColors == <<"#ef4444", "#22c55e", "#0ea5e9", "#fb923c">>
NeutralColor(theme) == IF theme \in {"light", "satellite"} THEN "#000000" ELSE "#ffffff"
ExpectedColor(topic, theme) ==
  IF \E g \in 1..4 : \E q \in TopicGroups[g] : topic \in Casings(q)
    THEN GroupColors[CHOOSE g \in 1..4 : \E q \in TopicGroups[g] : topic \in Casings(q)]
    ELSE NeutralColor(theme)
ExpectedColorOf ==
  [t \in FeedTopics, th \in ThemeInputs \cup InitialThemes |-> ExpectedColor(t, th)]

\* C19: in src/app.js, after every step the color of each marker of
\* activeMarkers is the color of its record's topic under the current
\* theme; a theme change gives the neutral markers the new theme's neutral
\* color, keeps the group colors, and changes neither the key set, nor a
\* marker handle or minZoom, nor the attached markers.
C19_ColorFollowsTheme ==
  [][ /\ \A k \in DOMAIN activeMarkers' :
           activeMarkers'[k].marker.color =
             ExpectedColorOf[activeMarkers'[k].marker.recordTopic, currentTheme']
      /\ last'.op = "theme" =>
           /\ DOMAIN activeMarkers' = DOMAIN activeMarkers
           /\ attached' = attached
           /\ \A k \in DOMAIN activeMarkers :
                LET old == activeMarkers[k]
                    new == activeMarkers'[k]
                    grouped == \E g \in 1..4 : old.marker.color = GroupColors[g]
                IN /\ new.minZoom = old.minZoom
                   /\ new.marker.id = old.marker.id
                   /\ grouped => new.marker.color = old.marker.color
                   /\ ~grouped => new.marker.color = NeutralColor(currentTheme') ]_vars

\* the theme became light while a neutral and a group-colored marker
\* were displayed, one of them hidden
C19_Witness ==
  /\ last.op = "theme"
  /\ currentTheme = "light"
  /\ \E j, k \in DOMAIN activeMarkers :
       /\ activeMarkers[j].marker.color = "#000000"
       /\ activeMarkers[k].marker.color = "#22c55e"
  /\ attached # {}
  /\ MarkerIds(activeMarkers) \ attached # {}

\* C20: in src/app.js, once initMap has completed and after any changeTheme
\* calls, currentTheme is a key of the available tile sources and the tile
\* layer on the map is the one of currentTheme; without a usable MapTiler
\* key the available themes are exactly dark and light.
C20_ThemeMatchesTiles ==
  LET available == getTileSources(maptilerKey)
  IN /\ currentTheme \in SeqRange(available)
     /\ tileLayer = currentTheme
     /\ (maptilerKey = Null \/ Includes(ToStringJS(maptilerKey), PLACEHOLDER))
          => available = <<"dark", "light">>

WithCoordinates(task) == { j \in 1..Len(task.features) : task.features[j].geometry }

\* C22: in part_002, once no fetchHurricanes invocation is in flight and at
\* least one has displayed a response, hurricaneLayer holds exactly one
\* marker per feature with coordinates of the response of one invocation,
\* and no other marker.
C22_LayerShowsOneResponse ==
  ( /\ \A t \in 1..MaxInvocations : tasks[t].pc \in {"idle", "done"}
    /\ \E t \in 1..MaxInvocations : tasks[t].loaded )
    => \E t \in 1..MaxInvocations :
         /\ tasks[t].loaded
         /\ \A m \in hurricaneLayer : m.inv = t /\ m.f \in WithCoordinates(tasks[t])
         /\ \A j \in WithCoordinates(tasks[t]) :
              Cardinality({ m \in hurricaneLayer : m.f = j }) = 1

\* the calls that have returned the given kind of result for the key
Returned(key, failed) ==
  { d \in 1..MaxCalls :
      /\ iconCalls[d].pc = "returned"
      /\ CacheKey(iconCalls[d].color) = key
      /\ (iconCalls[d].result = Null) <=> failed }

\* C23: in part_002, a call of getColoredSvgDataUrl for a color whose
\* lower-cased key has a stored null from a failed call returns null
\* without a fetch of the icon, and a call made after a call for the same
\* key has succeeded returns that call's data URL without a fetch.
C23_IconResultCached ==
  [][ \A c \in 1..MaxCalls :
        (iconCalls[c].pc = "idle" /\ iconCalls'[c].pc # "idle")
          => LET key == CacheKey(iconCalls'[c].color)
             IN /\ (Returned(key, TRUE) # {} /\ CacheGet(svgDataUrlCache, key) = Null
                      /\ key \in DOMAIN svgDataUrlCache)
                     => /\ iconCalls'[c].pc = "returned"
                        /\ iconCalls'[c].result = Null
                        /\ iconFetches' = iconFetches
                /\ Returned(key, FALSE) # {}
                     => /\ iconCalls'[c].pc = "returned"
                        /\ \E d \in Returned(key, FALSE) :
                             iconCalls'[c].result = iconCalls[d].result
                        /\ iconFetches' = iconFetches ]_vars

====
